---- MODULE Spec2Model ----
(***************************************************************************)
(* Model of the Notion timer: the state file (.notion_timer_state.json),   *)
(* the command-line front end (notion_timer.py) and the graphical front    *)
(* end (notion_tray.py), both driving the same three operations start,     *)
(* stop and status.                                                        *)
(*                                                                         *)
(* Spec      every handler runs to completion (one action per handler).    *)
(* LiveSpec  Spec, with stop retried until the remote service accepts.     *)
(* ConcSpec  independent processes interleave at the level of the file     *)
(*           system calls and of the network exchange.                     *)
(* UnitSpec  the functions of the state file and the recording of stop,    *)
(*           each called on its own.                                       *)
(*                                                                         *)
(* Python's Optional[X] is a sequence of length at most one: <<>> is None  *)
(* and <<x>> is the value x.                                               *)
(***************************************************************************)
EXTENDS Integers, Sequences, FiniteSets, TLC

\* ------------------------------------------------------------- bounds
\* The wall clock is read at most MaxReadings times in a behaviour.
MaxReadings == 4

\* A Session handed to the state file on its own was started at second
\* 0..MaxStart, and is stopped at most MaxGap seconds after its start.
MaxStart == 1
MaxGap == 90

\* ------------------------------------------------------------- inputs
\* The processes that share the state file: one running the command line,
\* one running the window.
CliProcs == {"cli"}
GuiProcs == {"gui"}
Procs == CliProcs \cup GuiProcs

\* Seconds that pass between one reading of the wall clock and the next: the
\* clock has microsecond resolution and two readings are at least a file write
\* or a network round trip apart, so no two readings are equal.
ClockSteps == {45}

\* The latest instant at which the wall clock is read.
Horizon == MaxReadings * 45

\* Text typed as a project or as a task (command-line argument or entry field).
ProjectInputs == {"", " Acme"}
TaskInputs == {"", "Design"}

None == <<>>
Some(x) == <<x>>

\* Values of --token / --database-id (None when the flag is not given) and of
\* the environment variables NOTION_TOKEN / NOTION_DATABASE_ID (None when unset).
TokenFlags == {None, Some(""), Some("tok")}
DatabaseFlags == {None}
TokenEnvs == {None, Some("tok")}
DatabaseEnvs == {None, Some("db")}
Envs == [NOTION_TOKEN : TokenEnvs, NOTION_DATABASE_ID : DatabaseEnvs]
\* The environments the window is launched in.
GuiEnvs == {e \in Envs : e.NOTION_TOKEN # None}

\* What the network exchange of urlopen can end in: a response with a status
\* code (the two codes on either side of the limit of line 78), a URLError (no
\* response), or a timeout while the response is read, which urllib raises as
\* a bare OSError.
StatusCodes == {399, 400}
Exchanges == [kind : {"response"}, code : StatusCodes]
               \cup [kind : {"URLError", "OSError"}, code : {0}]

\* ------------------------------------------------------------- timestamps
\* An ISO-8601 string: well formed strings carry the instant in seconds,
\* anything else is not parseable by datetime.fromisoformat.
Iso(t) == [iso |-> TRUE, sec |-> t]

\* _iso_now giving the same instant at every reading.
IsoNowFrozen(clock) == Iso(0)

\* _iso_now: the instant of the reading, formatted.
IsoNow(clock) == Iso(clock)

\* _parse_iso: [ok, dt]; ok is FALSE where fromisoformat raises ValueError.
ParseIso(s) == IF s.iso THEN [ok |-> TRUE, dt |-> s.sec] ELSE [ok |-> FALSE, dt |-> 0]

\* ------------------------------------------------------------- SessionState
SessionState(project, task, start) == [project |-> project, task |-> task, start |-> start]

\* JSON text is a sequence of tokens; a member "key": value is one token.
Tok(k, s, ts) == [k |-> k, s |-> s, ts |-> ts]
NoTs == [iso |-> FALSE, sec |-> 0]
Open == Tok("{", "", NoTs)
Close == Tok("}", "", NoTs)
Array == Tok("[]", "", NoTs)

\* SessionState.to_dict followed by json.dumps.
ToJson(state) ==
    << Open,
       Tok("project", state.project, NoTs),
       Tok("task", state.task, NoTs),
       Tok("start", "", state.start),
       Close >>

\* json.loads: the text is a JSON value iff it is the array token or a
\* brace-delimited sequence of members.
IsMember(tok) == tok.k \in {"project", "task", "start"}
JsonLoads(text) ==
    IF text = <<Array>> THEN [ok |-> TRUE, object |-> FALSE, members |-> <<>>]
    ELSE IF /\ Len(text) >= 2
            /\ text[1] = Open
            /\ text[Len(text)] = Close
            /\ \A i \in 2..(Len(text) - 1) : IsMember(text[i])
         THEN [ok |-> TRUE, object |-> TRUE, members |-> SubSeq(text, 2, Len(text) - 1)]
         ELSE [ok |-> FALSE, object |-> FALSE, members |-> <<>>]

HasKey(members, k) == \E i \in 1..Len(members) : members[i].k = k
\* data[k]: the last member named k.
Lookup(members, k) ==
    members[CHOOSE i \in 1..Len(members) :
                /\ members[i].k = k
                /\ \A j \in (i + 1)..Len(members) : members[j].k # k]

\* from_dict reading the task where the project is and the other way round.
FromDictSwapped(data) ==
    IF /\ data.object
       /\ HasKey(data.members, "project")
       /\ HasKey(data.members, "task")
       /\ HasKey(data.members, "start")
    THEN [ok |-> TRUE,
          state |-> SessionState(Lookup(data.members, "task").s,
                                 Lookup(data.members, "project").s,
                                 Lookup(data.members, "start").ts)]
    ELSE [ok |-> FALSE, state |-> SessionState("", "", NoTs)]

\* SessionState.from_dict: [ok, state]; ok is FALSE where data[...] raises.
FromDict(data) ==
    IF /\ data.object
       /\ HasKey(data.members, "project")
       /\ HasKey(data.members, "task")
       /\ HasKey(data.members, "start")
    THEN [ok |-> TRUE,
          state |-> SessionState(Lookup(data.members, "project").s,
                                 Lookup(data.members, "task").s,
                                 Lookup(data.members, "start").ts)]
    ELSE [ok |-> FALSE, state |-> SessionState("", "", NoTs)]

\* ------------------------------------------------------------- state file
NoFile == [exists |-> FALSE, text |-> <<>>]
FileWith(text) == [exists |-> TRUE, text |-> text]

\* _read_state without the except clause of lines 35-36 around from_dict.
ParseStateUnchecked(text) ==
    LET data == JsonLoads(text) IN
    IF ~data.ok THEN None
    ELSE Some(FromDict(data).state)

\* The part of _read_state after STATE_FILE.read_text(): parse, or None.
ParseState(text) ==
    LET data == JsonLoads(text) IN
    IF ~data.ok THEN None
    ELSE IF ~FromDict(data).ok THEN None
    ELSE Some(FromDict(data).state)

\* _read_state on the file f, run without interruption.
ReadState(f) == IF ~f.exists THEN None ELSE ParseState(f.text)

\* Text with no bytes in the encoding of the state file.  write_text is given
\* no encoding, so it is the locale's; under UTF-8 the text it cannot encode
\* is a lone surrogate, which is what an undecodable byte of a command-line
\* argument becomes.
Unencodable == "\\udcff"

\* str.encode over the text of the file: FALSE where UnicodeEncodeError is
\* raised.
Encodes(text) == \A i \in 1..Len(text) : text[i].s # Unencodable

\* _write_state raises: the text does not encode.
WriteRaises(state) == ~Encodes(ToJson(state))

\* The length of a text in bytes, counting one for each token and the
\* characters of each string.
RECURSIVE Size(_)
Size(text) == IF text = <<>> THEN 0 ELSE 1 + Len(Head(text).s) + Size(Tail(text))

\* Writing the text new from offset 0 into a file that holds the text old:
\* the bytes of old beyond the length of new stay, the last of them a brace.
Overlay(old, new) == IF Size(old) > Size(new) THEN new \o <<Close>> ELSE new

\* write_text leaving alone a file that another writer has filled meanwhile.
WriteOverKeepsOther(f, state) ==
    IF WriteRaises(state) \/ f.text # <<>> THEN f ELSE FileWith(ToJson(state))

\* _write_state, the write through the descriptor once the file f is open:
\* nothing is written when the text does not encode.
WriteOver(f, state) ==
    IF WriteRaises(state) THEN f ELSE FileWith(Overlay(f.text, ToJson(state)))

\* _write_state, run without interruption: the file as it is left.  The file
\* is opened, and so emptied, before the text is encoded.
WriteState(state) == WriteOver(FileWith(<<>>), state)

\* _clear_state leaving the file in place.
ClearStateKeeps(f) == f

\* _clear_state, run without interruption.
ClearState(f) == IF f.exists THEN NoFile ELSE f

\* ------------------------------------------------------------- credentials
\* Python truthiness of an Optional[str]: None and "" are false.
Truthy(v) == v # None /\ v[1] # ""

\* _ensure_env returning the unset variable instead of raising.
EnsureEnvNoRaise(value, envVal) ==
    IF Truthy(value) THEN [ok |-> TRUE, val |-> value[1]]
    ELSE IF ~Truthy(envVal) THEN [ok |-> TRUE, val |-> ""]
    ELSE [ok |-> TRUE, val |-> envVal[1]]

\* _ensure_env(value, name): [ok, val]; ok is FALSE where SystemExit is raised.
EnsureEnv(value, envVal) ==
    IF Truthy(value) THEN [ok |-> TRUE, val |-> value[1]]
    ELSE IF ~Truthy(envVal) THEN [ok |-> FALSE, val |-> ""]
    ELSE [ok |-> TRUE, val |-> envVal[1]]

\* ------------------------------------------------------------- recorder
\* What a call leaves behind: exc is "" when it returns, else the class of
\* the exception that propagates; status is the response's code, if any.
Returned == [exc |-> "", error |-> "", status |-> 0]
Raised(exc, error, status) == [exc |-> exc, error |-> error, status |-> status]

\* _post_json without the check of lines 78-81.
PostJsonNoStatusCheck(x) ==
    IF x.kind = "URLError" THEN Raised("SystemExit", "NetworkError", 0)
    ELSE IF x.kind = "OSError" THEN Raised("OSError", "", 0)
    ELSE Returned

\* _post_json, given what the network exchange ended in.  HTTPError is caught
\* and turned into a status; URLError exits; anything else propagates.
PostJson(x) ==
    IF x.kind = "URLError" THEN Raised("SystemExit", "NetworkError", 0)
    ELSE IF x.kind = "OSError" THEN Raised("OSError", "", 0)
    ELSE IF x.code >= 400 THEN Raised("SystemExit", "RemoteError", x.code)
    ELSE Returned

\* except Exception: SystemExit derives from BaseException only.
IsException(r) == r.exc \notin {"", "SystemExit"}

\* The duration cut to two decimals instead of rounded.
Round2Truncates(secs) == (secs * 100) \div 60

\* round(duration_minutes, 2) for a duration of secs seconds, in hundredths
\* of a minute (secs * 100 / 60 is never half way between two integers).
Round2(secs) ==
    IF secs >= 0 THEN (secs * 200 + 60) \div 120
    ELSE -(((-secs) * 200 + 60) \div 120)

\* create_notion_page putting the end time in the Start field as well.
PayloadEndAsStart(database_id, project, task, start_iso, end_iso, duration_secs) ==
    [database_id |-> database_id,
     Task |-> task,
     Project |-> project,
     Start |-> end_iso,
     End |-> end_iso,
     Duration |-> Round2(duration_secs)]

\* The body built by create_notion_page.
Payload(database_id, project, task, start_iso, end_iso, duration_secs) ==
    [database_id |-> database_id,
     Task |-> task,
     Project |-> project,
     Start |-> start_iso,
     End |-> end_iso,
     Duration |-> Round2(duration_secs)]

\* One request as the remote service sees it (the bearer token of its
\* Authorization header and its body), with what the exchange ended in.
Request(token, payload, x) == [token |-> token, payload |-> payload, exchange |-> x]

\* The last element of a sequence.
Last(q) == q[Len(q)]

\* The remote call failed: a status of 400 or more, or no response at all.
RemoteFailed(x) == x.kind # "response" \/ x.code >= 400

\* ------------------------------------------------------------- state
VARIABLES
    file,       \* the state file
    now,        \* the wall clock at its last reading, in seconds
    pc,         \* per process: where it is ("ready" between handlers)
    loc,        \* per process: the locals of the handler it is in
    guiEnv,     \* the environment the graphical front end was launched in
    out,        \* what the last finished handler reported
    sent        \* the requests sent to the remote service, in order

vars == <<file, now, pc, loc, guiEnv, out, sent>>

\* The locals of a handler: the operation, the arguments of start, state (the
\* Session read, or the one start writes), what _ensure_env gives for the two
\* credentials (fixed by the flags and the environment of the process), the
\* end time, the payload, and whether the descriptor _write_state opened
\* still is the file at the path.
NoCredential == [ok |-> FALSE, val |-> ""]
NoPayload == [database_id |-> "", Task |-> "", Project |-> "", Start |-> NoTs,
              End |-> NoTs, Duration |-> 0]
NoLocals == [op |-> "", project |-> "", task |-> "", state |-> None,
             token |-> NoCredential, database_id |-> NoCredential,
             payload |-> NoPayload, fd |-> FALSE]

\* A finished handler's report: the front end, the operation, the outcome
\* (ok or the kind of failure), how it was delivered (print, SystemExit,
\* traceback, dialog, label) and the Session it names.
Report(front, op, outcome, via, shown) ==
    [front |-> front, op |-> op, outcome |-> outcome, via |-> via, shown |-> shown]

\* The state file as found at launch: missing, empty, truncated, JSON that is
\* no object, or an object lacking a field.
InitFiles ==
    { NoFile,
      FileWith(<<>>),
      FileWith(<<Open, Tok("project", "Acme", NoTs)>>),
      FileWith(<<Array>>),
      FileWith(<<Open, Tok("project", "Acme", NoTs), Tok("task", "Design", NoTs), Close>>) }

\* TimerApp.__init__ ends with refresh_status.
Init ==
    /\ file \in InitFiles
    /\ now = 0
    /\ pc = [p \in Procs |-> "ready"]
    /\ loc = [p \in Procs |-> NoLocals]
    /\ guiEnv \in GuiEnvs
    /\ out = Report("gui", "status", "ok", "label", ReadState(file))
    /\ sent = <<>>

\* A reading of the wall clock, d seconds after the last one.
ReadClock(d) ==
    /\ now + d <= Horizon
    /\ now' = now + d

\* ------------------------------------------------------------- command line
\* Each command is one run of main(): a fresh process, which ends with the
\* handler (by a return, by SystemExit or by an uncaught exception).  Run to
\* completion, a command does not depend on which process runs it.

\* start_session without the check of lines 113-114.
CliStartAlwaysWrites(state) == "write"

\* start_session, lines 113-114: what start does with the result of
\* _read_state.
CliStartOutcome(state) == IF state # None THEN "AlreadyRunning" ELSE "write"

\* start_session, run to completion.
CliStart(project, task) ==
    /\ IF CliStartOutcome(ReadState(file)) = "AlreadyRunning"
       THEN /\ out' = Report("cli", "start", "AlreadyRunning", "SystemExit", None)
            /\ UNCHANGED <<file, now>>
       ELSE \E d \in ClockSteps :
            LET state == SessionState(project, task, IsoNow(now')) IN
            /\ ReadClock(d)
            /\ file' = WriteState(state)
            /\ out' = IF WriteRaises(state)
                      THEN Report("cli", "start", "Exception", "traceback", None)
                      ELSE Report("cli", "start", "ok", "print", Some(state))
    /\ UNCHANGED <<pc, loc, guiEnv, sent>>

\* stop_session, lines 131-143 (stop_timer, lines 109-121, alike): the
\* duration, in seconds (duration_minutes times 60), and the body of the
\* request for the Session state stopped at end_time.
StopPayload(state, database_id, end_time) ==
    LET start_dt == ParseIso(state.start)
        end_dt == ParseIso(end_time)
        duration == end_dt.dt - start_dt.dt
    IN Payload(database_id, state.project, state.task, state.start, end_time, duration)

\* stop sending its request a second time when the first exchange failed.
RecordRetries(state, token, database_id, d, x) ==
    LET request == Request(token, StopPayload(state, database_id, IsoNow(now')), x) IN
    /\ ReadClock(d)
    /\ IF ~ParseIso(state.start).ok
       THEN UNCHANGED sent
       ELSE IF PostJson(x).exc # ""
       THEN sent' = Append(Append(sent, request), request)
       ELSE sent' = Append(sent, request)

\* What stop does once it holds a Session and both credentials, common to
\* stop_session (lines 129-143) and stop_timer (lines 107-121): read the
\* clock, compute the duration, send one request.
Record(state, token, database_id, d, x) ==
    /\ ReadClock(d)
    /\ IF ~ParseIso(state.start).ok
       THEN UNCHANGED sent
       ELSE sent' = Append(sent, Request(token,
                                         StopPayload(state, database_id, IsoNow(now')), x))

\* What the try block of stop leaves behind: ValueError from _parse_iso, or
\* the outcome of _post_json.
Recorded(state, x) ==
    IF ~ParseIso(state.start).ok THEN Raised("ValueError", "", 0) ELSE PostJson(x)

\* stop resolving the credentials before it looks at the state.
StopOutcomeEnvFirst(state, token, database_id) ==
    IF ~token.ok \/ ~database_id.ok THEN "ConfigError"
    ELSE IF state = None THEN "NoActiveSession"
    ELSE "record"

\* stop_session, lines 123-128 (stop_timer, lines 95-105, alike): what stop
\* does with the result of _read_state and of the two _ensure_env.
StopOutcome(state, token, database_id) ==
    IF state = None THEN "NoActiveSession"
    ELSE IF ~token.ok \/ ~database_id.ok THEN "ConfigError"
    ELSE "record"

\* stop_session, run to completion, with the flags and the environment of
\* this run.
CliStop(tokenFlag, databaseFlag, env) ==
    LET state == ReadState(file)
        token == EnsureEnv(tokenFlag, env.NOTION_TOKEN)
        database_id == EnsureEnv(databaseFlag, env.NOTION_DATABASE_ID)
        outcome == StopOutcome(state, token, database_id)
    IN
    /\ IF outcome # "record"
       THEN /\ out' = Report("cli", "stop", outcome, "SystemExit", None)
            /\ UNCHANGED <<file, now, sent>>
       ELSE \E d \in ClockSteps, x \in Exchanges :
            LET r == Recorded(state[1], x) IN
            /\ Record(state[1], token.val, database_id.val, d, x)
            /\ IF r.exc = "SystemExit"
               THEN /\ out' = Report("cli", "stop", r.error, "SystemExit", None)
                    /\ UNCHANGED file
               ELSE IF r.exc # ""
               THEN /\ out' = Report("cli", "stop", "Exception", "traceback", None)
                    /\ UNCHANGED file
               ELSE /\ file' = ClearState(file)
                    /\ out' = Report("cli", "stop", "ok", "print", state)
    /\ UNCHANGED <<pc, loc, guiEnv>>

\* status_session, run to completion.
CliStatus ==
    /\ out' = Report("cli", "status", "ok", "print", ReadState(file))
    /\ UNCHANGED <<file, now, pc, loc, guiEnv, sent>>

\* ------------------------------------------------------------- window
\* str.strip() on the text of an entry field.
Strip(text) == IF text = " Acme" THEN "Acme" ELSE text

\* start_timer without the check of lines 85-87.
GuiStartNoRunningCheck(project, task, state) ==
    IF project = "" \/ task = "" THEN "MissingInput" ELSE "write"

\* start_timer, lines 81-87: what start does with the stripped fields and
\* with the result of _read_state.
GuiStartOutcome(project, task, state) ==
    IF project = "" \/ task = "" THEN "MissingInput"
    ELSE IF state # None THEN "AlreadyRunning"
    ELSE "write"

\* TimerApp.start_timer, run to completion.
GuiStart(p, projectText, taskText) ==
    LET project == Strip(projectText)
        task == Strip(taskText)
        outcome == GuiStartOutcome(project, task, ReadState(file))
    IN
    /\ pc[p] = "ready"
    /\ IF outcome # "write"
       THEN /\ out' = Report("gui", "start", outcome, "dialog", None)
            /\ UNCHANGED <<file, now>>
       ELSE \E d \in ClockSteps :
            LET state == SessionState(project, task, IsoNow(now')) IN
            /\ ReadClock(d)
            /\ file' = WriteState(state)
            /\ out' = IF WriteRaises(state)
                      THEN Report("gui", "start", "Exception", "traceback", None)
                      ELSE Report("gui", "start", "ok", "dialog", Some(state))
    /\ UNCHANGED <<pc, loc, guiEnv, sent>>

\* TimerApp.stop_timer, run to completion.  SystemExit raised inside the
\* second try is not an Exception: it leaves the handler and ends mainloop.
GuiStop(p) ==
    LET state == ReadState(file)
        token == EnsureEnv(None, guiEnv.NOTION_TOKEN)
        database_id == EnsureEnv(None, guiEnv.NOTION_DATABASE_ID)
        outcome == StopOutcome(state, token, database_id)
    IN
    /\ pc[p] = "ready"
    /\ IF outcome # "record"
       THEN /\ out' = Report("gui", "stop", outcome, "dialog", None)
            /\ UNCHANGED <<file, now, sent, pc>>
       ELSE \E d \in ClockSteps, x \in Exchanges :
            LET r == Recorded(state[1], x) IN
            /\ Record(state[1], token.val, database_id.val, d, x)
            /\ IF IsException(r)
               THEN /\ out' = Report("gui", "stop", "Exception", "dialog", None)
                    /\ UNCHANGED <<file, pc>>
               ELSE IF r.exc = "SystemExit"
               THEN /\ out' = Report("gui", "stop", r.error, "SystemExit", None)
                    /\ pc' = [pc EXCEPT ![p] = "exited"]
                    /\ UNCHANGED file
               ELSE /\ file' = ClearState(file)
                    /\ out' = Report("gui", "stop", "ok", "dialog", state)
                    /\ UNCHANGED pc
    /\ UNCHANGED <<loc, guiEnv>>

\* TimerApp.refresh_status, run to completion.
GuiRefresh(p) ==
    /\ pc[p] = "ready"
    /\ out' = Report("gui", "status", "ok", "label", ReadState(file))
    /\ UNCHANGED <<file, now, pc, loc, guiEnv, sent>>

\* main() of the window, launched again after the process has ended;
\* TimerApp.__init__ ends with refresh_status.
GuiMain(p, env) ==
    /\ pc[p] = "exited"
    /\ pc' = [pc EXCEPT ![p] = "ready"]
    /\ guiEnv' = env
    /\ out' = Report("gui", "status", "ok", "label", ReadState(file))
    /\ UNCHANGED <<file, now, loc, sent>>

\* ------------------------------------------------------------- Spec
Next ==
    \/ \E project \in ProjectInputs, task \in TaskInputs : CliStart(project, task)
    \/ \E tokenFlag \in TokenFlags, databaseFlag \in DatabaseFlags, env \in Envs :
          CliStop(tokenFlag, databaseFlag, env)
    \/ CliStatus
    \/ \E p \in GuiProcs, projectText \in ProjectInputs, taskText \in TaskInputs :
          GuiStart(p, projectText, taskText)
    \/ \E p \in GuiProcs : GuiStop(p)
    \/ \E p \in GuiProcs : GuiRefresh(p)
    \/ \E p \in GuiProcs, env \in GuiEnvs : GuiMain(p, env)

Spec == Init /\ [][Next]_vars

\* A stop from the command line, with credentials, that the remote service
\* answers with a status below 400.
AnsweredStop ==
    /\ CliStop(Some("tok"), None, [NOTION_TOKEN |-> None, NOTION_DATABASE_ID |-> Some("db")])
    /\ out'.outcome = "ok"

\* The handlers run as in Spec, and the user retries stop until the remote
\* service answers with a status below 400.
LiveSpec == Init /\ [][Next]_vars /\ WF_vars(AnsweredStop)

\* ------------------------------------------------------------- ConcSpec
\* The same handlers, one file system call or network exchange at a time, so
\* that the handlers of independent processes interleave.

Finish(p, report) ==
    /\ pc' = [pc EXCEPT ![p] = "ready"]
    /\ loc' = [loc EXCEPT ![p] = NoLocals]
    /\ out' = report

\* main() dispatching to start_session, or a click on the start button
\* (start_timer, lines 79-83).
CallStart(p, projectText, taskText) ==
    LET project == IF p \in GuiProcs THEN Strip(projectText) ELSE projectText
        task == IF p \in GuiProcs THEN Strip(taskText) ELSE taskText
    IN
    /\ pc[p] = "ready"
    /\ IF p \in GuiProcs /\ (project = "" \/ task = "")
       THEN Finish(p, Report("gui", "start", "MissingInput", "dialog", None))
       ELSE /\ pc' = [pc EXCEPT ![p] = "read_exists"]
            /\ loc' = [loc EXCEPT ![p] = [NoLocals EXCEPT !.op = "start",
                                             !.project = project, !.task = task]]
            /\ UNCHANGED out
    /\ UNCHANGED <<file, now, guiEnv, sent>>

\* main() dispatching to stop_session, or a click on the stop button.
CallStop(p, tokenFlag, databaseFlag, env) ==
    LET flags == IF p \in GuiProcs THEN <<None, None>> ELSE <<tokenFlag, databaseFlag>>
        environ == IF p \in GuiProcs THEN guiEnv ELSE env
    IN
    /\ pc[p] = "ready"
    /\ pc' = [pc EXCEPT ![p] = "read_exists"]
    /\ loc' = [loc EXCEPT ![p] = [NoLocals EXCEPT !.op = "stop",
                 !.token = EnsureEnv(flags[1], environ.NOTION_TOKEN),
                 !.database_id = EnsureEnv(flags[2], environ.NOTION_DATABASE_ID)]]
    /\ UNCHANGED <<file, now, guiEnv, out, sent>>

\* main() dispatching to status_session, or a click on the refresh button.
CallStatus(p) ==
    /\ pc[p] = "ready"
    /\ pc' = [pc EXCEPT ![p] = "read_exists"]
    /\ loc' = [loc EXCEPT ![p] = [NoLocals EXCEPT !.op = "status"]]
    /\ UNCHANGED <<file, now, guiEnv, out, sent>>

Dialog(p, via) == IF p \in GuiProcs THEN "dialog" ELSE via

\* What the handler of p does with the result of _read_state, up to its next
\* file system call or network exchange; d is the time since the clock was
\* last read, should the handler read it.
AfterRead(p, state, d) ==
    LET l == loc[p] IN
    IF l.op = "status"
    THEN /\ Finish(p, Report(IF p \in GuiProcs THEN "gui" ELSE "cli", "status", "ok",
                             IF p \in GuiProcs THEN "label" ELSE "print", state))
         /\ UNCHANGED now
    ELSE IF l.op = "start"
    THEN IF CliStartOutcome(state) # "write"
         THEN /\ Finish(p, Report(IF p \in GuiProcs THEN "gui" ELSE "cli", "start",
                                  "AlreadyRunning", Dialog(p, "SystemExit"), None))
              /\ UNCHANGED now
         ELSE /\ ReadClock(d)
              /\ pc' = [pc EXCEPT ![p] = "write_open"]
              /\ loc' = [loc EXCEPT ![p].state =
                            Some(SessionState(l.project, l.task, IsoNow(now')))]
              /\ UNCHANGED out
    ELSE IF StopOutcome(state, l.token, l.database_id) # "record"
    THEN /\ Finish(p, Report(IF p \in GuiProcs THEN "gui" ELSE "cli", "stop",
                             StopOutcome(state, l.token, l.database_id),
                             Dialog(p, "SystemExit"), None))
         /\ UNCHANGED now
    ELSE /\ ReadClock(d)
         /\ IF ~ParseIso(state[1].start).ok
            THEN Finish(p, Report(IF p \in GuiProcs THEN "gui" ELSE "cli", "stop",
                                  "Exception", Dialog(p, "traceback"), None))
            ELSE /\ pc' = [pc EXCEPT ![p] = "post"]
                 /\ loc' = [loc EXCEPT ![p].state = state,
                               ![p].payload = StopPayload(state[1], l.database_id.val,
                                                          IsoNow(now'))]
                 /\ UNCHANGED out

\* _read_state, line 30: STATE_FILE.exists().
ReadExists(p, d) ==
    /\ pc[p] = "read_exists"
    /\ IF file.exists
       THEN /\ pc' = [pc EXCEPT ![p] = "read_text"]
            /\ UNCHANGED <<loc, out, now>>
       ELSE AfterRead(p, None, d)
    /\ UNCHANGED <<file, guiEnv, sent>>

\* _read_state, lines 32-36: read_text (FileNotFoundError if the file has
\* gone meanwhile), json.loads and from_dict, any Exception giving None.
ReadText(p, d) ==
    /\ pc[p] = "read_text"
    /\ AfterRead(p, IF ~file.exists THEN None ELSE ParseState(file.text), d)
    /\ UNCHANGED <<file, guiEnv, sent>>

\* _write_state, write_text: open(path, "w") creates the file or truncates it.
WriteOpen(p) ==
    /\ pc[p] = "write_open"
    /\ file' = FileWith(<<>>)
    /\ pc' = [pc EXCEPT ![p] = "write_data"]
    /\ loc' = [loc EXCEPT ![p].fd = TRUE]
    /\ UNCHANGED <<now, guiEnv, out, sent>>

\* _write_state, write_text: write the text through the descriptor, from
\* offset 0, and close it.  A file unlinked since it was opened stays
\* unlinked.
WriteData(p) ==
    /\ pc[p] = "write_data"
    /\ file' = IF loc[p].fd THEN WriteOver(file, loc[p].state[1]) ELSE file
    /\ Finish(p, IF WriteRaises(loc[p].state[1])
                 THEN Report(IF p \in GuiProcs THEN "gui" ELSE "cli", "start",
                             "Exception", "traceback", None)
                 ELSE Report(IF p \in GuiProcs THEN "gui" ELSE "cli", "start", "ok",
                             Dialog(p, "print"), loc[p].state))
    /\ UNCHANGED <<now, guiEnv, sent>>

\* create_notion_page: the network exchange, and what the handler makes of
\* its outcome.
Post(p, x) ==
    LET r == PostJson(x) IN
    /\ pc[p] = "post"
    /\ sent' = Append(sent, Request(loc[p].token.val, loc[p].payload, x))
    /\ IF r.exc = ""
       THEN /\ pc' = [pc EXCEPT ![p] = "clear_exists"]
            /\ UNCHANGED <<loc, out>>
       ELSE IF p \in GuiProcs /\ ~IsException(r)
       THEN /\ pc' = [pc EXCEPT ![p] = "exited"]
            /\ loc' = [loc EXCEPT ![p] = NoLocals]
            /\ out' = Report("gui", "stop", r.error, "SystemExit", None)
       ELSE IF r.exc = "SystemExit"
       THEN Finish(p, Report("cli", "stop", r.error, "SystemExit", None))
       ELSE Finish(p, Report(IF p \in GuiProcs THEN "gui" ELSE "cli", "stop",
                             "Exception", Dialog(p, "traceback"), None))
    /\ UNCHANGED <<file, now, guiEnv>>

\* _clear_state, line 44: STATE_FILE.exists().
ClearExists(p) ==
    /\ pc[p] = "clear_exists"
    /\ IF file.exists
       THEN /\ pc' = [pc EXCEPT ![p] = "clear_unlink"]
            /\ UNCHANGED <<loc, out>>
       ELSE Finish(p, Report(IF p \in GuiProcs THEN "gui" ELSE "cli", "stop", "ok",
                             Dialog(p, "print"), loc[p].state))
    /\ UNCHANGED <<file, now, guiEnv, sent>>

\* _clear_state, line 45: STATE_FILE.unlink(), FileNotFoundError if the file
\* has gone meanwhile; nothing catches it (the window prints the traceback
\* and goes on).  Descriptors open on the file no longer are the path's file.
ClearUnlink(p) ==
    /\ pc[p] = "clear_unlink"
    /\ IF file.exists
       THEN /\ file' = NoFile
            /\ pc' = [pc EXCEPT ![p] = "ready"]
            /\ loc' = [q \in Procs |-> IF q = p THEN NoLocals
                                        ELSE [loc[q] EXCEPT !.fd = FALSE]]
            /\ out' = Report(IF p \in GuiProcs THEN "gui" ELSE "cli", "stop", "ok",
                             Dialog(p, "print"), loc[p].state)
       ELSE /\ Finish(p, Report(IF p \in GuiProcs THEN "gui" ELSE "cli", "stop",
                                "Exception", "traceback", None))
            /\ UNCHANGED file
    /\ UNCHANGED <<now, guiEnv, sent>>

\* The inputs of the interleaved runs.
ConcProjects == {"", " Acme"}
ConcTasks == {"Design"}
ConcEnvs == GuiEnvs
ConcSteps == ClockSteps
ConcExchanges == {x \in Exchanges : x.kind # "OSError"}

ConcNext ==
    \/ \E p \in Procs, project \in ConcProjects, task \in ConcTasks :
          CallStart(p, project, task)
    \/ \E p \in Procs, env \in ConcEnvs : CallStop(p, None, None, env)
    \/ \E p \in Procs : CallStatus(p)
    \/ \E p \in Procs, d \in ConcSteps : ReadExists(p, d)
    \/ \E p \in Procs, d \in ConcSteps : ReadText(p, d)
    \/ \E p \in Procs : WriteOpen(p)
    \/ \E p \in Procs : WriteData(p)
    \/ \E p \in Procs, x \in ConcExchanges : Post(p, x)
    \/ \E p \in Procs : ClearExists(p)
    \/ \E p \in Procs : ClearUnlink(p)
    \/ \E p \in GuiProcs, env \in ConcEnvs : GuiMain(p, env)

ConcSpec == Init /\ [][ConcNext]_vars

\* ------------------------------------------------------------- UnitSpec
\* The functions of the state file and the recording done by stop, each
\* called on its own, with arguments the front ends need not produce.  Here
\* sent holds the request sent by the last call, if it sent one, and the
\* clock reads what the caller says.

\* Every valid Session: a project and a task that are not empty and an ISO
\* start.
StoreProjects == {"Acme", Unencodable}
StoreTasks == {"Design"}
ValidSessions ==
    {SessionState(project, task, Iso(start)) :
        project \in StoreProjects, task \in StoreTasks, start \in 0..MaxStart}

\* Seconds between the start of a Session and the reading of the clock by
\* the stop that records it.
Gaps == 0..MaxGap

\* Nothing has been called yet.
NoReport == Report("", "", "", "", None)

\* _write_state(state).
StoreWrite(state) ==
    /\ file' = WriteState(state)
    /\ out' = IF WriteRaises(state)
              THEN Report("store", "write", "Exception", "raise", Some(state))
              ELSE Report("store", "write", "ok", "return", Some(state))
    /\ sent' = <<>>
    /\ UNCHANGED <<now, pc, loc, guiEnv>>

\* _read_state().
StoreRead ==
    /\ out' = Report("store", "read", "ok", "return", ReadState(file))
    /\ sent' = <<>>
    /\ UNCHANGED <<file, now, pc, loc, guiEnv>>

\* _clear_state(): line 45 runs, or it does not.
StoreClear ==
    /\ file' = ClearState(file)
    /\ out' = Report("store", "clear", "ok",
                     IF file.exists THEN "unlink" ELSE "return", None)
    /\ sent' = <<>>
    /\ UNCHANGED <<now, pc, loc, guiEnv>>

\* The exchanges of a stop called on its own: a response.
UnitExchanges == {x \in Exchanges : x.kind = "response"}

\* stop_session with both credentials given, the clock reading gap seconds
\* after the start of the Session stored.
StopAt(gap, x) ==
    LET state == ReadState(file) IN
    /\ state # None
    /\ ParseIso(state[1].start).ok
    /\ LET end_time == IsoNow(ParseIso(state[1].start).dt + gap)
           r == Recorded(state[1], x)
       IN
       /\ sent' = <<Request("tok", StopPayload(state[1], "db", end_time), x)>>
       /\ IF r.exc = "SystemExit"
          THEN /\ out' = Report("cli", "stop", r.error, "SystemExit", None)
               /\ UNCHANGED file
          ELSE IF r.exc # ""
          THEN /\ out' = Report("cli", "stop", "Exception", "traceback", None)
               /\ UNCHANGED file
          ELSE /\ file' = ClearState(file)
               /\ out' = Report("cli", "stop", "ok", "print", state)
    /\ UNCHANGED <<now, pc, loc, guiEnv>>

UnitInit ==
    /\ file \in InitFiles
    /\ now = 0
    /\ pc = [p \in Procs |-> "ready"]
    /\ loc = [p \in Procs |-> NoLocals]
    /\ guiEnv = [NOTION_TOKEN |-> Some("tok"), NOTION_DATABASE_ID |-> Some("db")]
    /\ out = NoReport
    /\ sent = <<>>

UnitNext ==
    \/ \E state \in ValidSessions : StoreWrite(state)
    \/ StoreRead
    \/ StoreClear
    \/ \E gap \in Gaps, x \in UnitExchanges : StopAt(gap, x)

UnitSpec == UnitInit /\ [][UnitNext]_vars

\* ------------------------------------------------------------- properties
\* The Session the state file holds, decoded from the text _write_state
\* produces; None for a missing file and for any other text.
Written ==
    LET t == file.text
        s == SessionState(t[2].s, t[3].s, t[4].ts)
    IN IF file.exists /\ Len(t) = 5 /\ t = ToJson(s) THEN Some(s) ELSE None

\* This step sent one request to the remote service.
SentOne == Len(sent') = Len(sent) + 1 /\ SubSeq(sent', 1, Len(sent)) = sent

\* C1: when stop runs with a Session stored and its remote call fails (a
\* status >= 400, or no response), stop reports an error, the state file is
\* exactly what it was before and a Session is still stored.
C1_FailedStopKeepsSession ==
    [][(out'.op = "stop" /\ Written # None /\ SentOne /\ RemoteFailed(Last(sent').exchange))
         => /\ out'.outcome # "ok"
            /\ file' = file
            /\ Written' = Written]_vars

\* C1 happens: a stop answered with status 400 has reported RemoteError and
\* the Session it sent is the one stored.
C1_Witness ==
    /\ out.op = "stop" /\ out.outcome = "RemoteError"
    /\ sent # <<>>
    /\ Last(sent).exchange = [kind |-> "response", code |-> 400]
    /\ Written # None
    /\ Written[1].start = Last(sent).payload.Start

\* C2: a stop that takes the store from a Session to absent has, in that
\* same stop, sent a request answered with a status below 400; and a stop
\* with a Session stored whose request is answered with a status below 400
\* leaves no state file.
C2_ClearOnlyOnSuccess ==
    [][/\ (out'.op = "stop" /\ Written # None /\ Written' = None)
            => /\ SentOne
               /\ Last(sent').exchange.kind = "response"
               /\ Last(sent').exchange.code < 400
       /\ (out'.op = "stop" /\ Written # None /\ SentOne
             /\ Last(sent').exchange.kind = "response" /\ Last(sent').exchange.code < 400)
            => /\ ~file'.exists
               /\ out'.outcome = "ok"]_vars

\* C2 happens: a stop answered with status 399 has succeeded and the state
\* file is gone.
C2_Witness ==
    /\ out.op = "stop" /\ out.outcome = "ok"
    /\ sent # <<>>
    /\ Last(sent).exchange = [kind |-> "response", code |-> 399]
    /\ ~file.exists

\* C3 as claimed: start with a Session stored fails with AlreadyRunning and
\* leaves the state file as it was, whatever the project and the task.
C3_StartWhileRunningIsAlreadyRunning ==
    [][(out'.op = "start" /\ Written # None)
         => (out'.outcome = "AlreadyRunning" /\ file' = file)]_vars

\* C3 amended: start with a Session stored always fails and leaves the state
\* file as it was; the failure is AlreadyRunning, except that the window,
\* given a project or a task that is empty once stripped, reports the
\* missing input instead.
C3_StartWhileRunningFails ==
    [][(out'.op = "start" /\ Written # None)
         => /\ out'.outcome # "ok"
            /\ file' = file
            /\ \A project \in ProjectInputs, task \in TaskInputs :
                  /\ CliStart(project, task) => out'.outcome = "AlreadyRunning"
                  /\ GuiStart("gui", project, task)
                       => out'.outcome = IF Strip(project) = "" \/ Strip(task) = ""
                                         THEN "MissingInput" ELSE "AlreadyRunning"]_vars

\* C3 happens: the command line has refused a start because of the Session
\* stored.
C3_Witness ==
    /\ out = Report("cli", "start", "AlreadyRunning", "SystemExit", None)
    /\ Written # None

\* C4: stop with no Session stored fails with NoActiveSession, sends no
\* request and leaves the state file as it was, whatever the credentials.
C4_StopWhileIdle ==
    [][(out'.op = "stop" /\ Written = None)
         => /\ out'.outcome = "NoActiveSession"
            /\ sent' = sent
            /\ file' = file
            /\ Written' = None]_vars

\* C4 happens: the window, launched without a database id, has refused a
\* stop for want of a Session.
C4_Witness ==
    /\ out = Report("gui", "stop", "NoActiveSession", "dialog", None)
    /\ guiEnv.NOTION_DATABASE_ID = None
    /\ pc["gui"] = "ready"
    /\ Written = None

\* C5: start with an empty project or an empty task writes nothing, from the
\* command line as from the window.
C5_EmptyStartRejected ==
    [][out'.op = "start"
         => \A project \in ProjectInputs, task \in TaskInputs :
               ((project = "" \/ task = "")
                  /\ (CliStart(project, task) \/ GuiStart("gui", project, task)))
                 => (file' = file /\ out'.outcome # "ok")]_vars

\* C6: the store holds at most one Session, and what it holds changes only
\* from absent to a Session created by this start, with the start time just
\* read, or from a Session to absent by a successful stop.
C6_CreatedOrDeletedOnly ==
    [][/\ Len(Written') <= 1
       /\ Written' # Written
            => \/ /\ Written = None /\ Written' # None
                  /\ out' = Report(out'.front, "start", "ok", out'.via, Written')
                  /\ now' > now
                  /\ Written'[1].start = Iso(now')
               \/ /\ Written # None /\ Written' = None
                  /\ out'.op = "stop" /\ out'.outcome = "ok"]_vars

\* C6 happens: a second Session is stored after the first was recorded and
\* deleted.
C6_Witness ==
    /\ Written # None
    /\ \E i \in 1..Len(sent) :
          /\ ~RemoteFailed(sent[i].exchange)
          /\ sent[i].payload.Start # Written[1].start

\* C7: status sends nothing and leaves the state file as it was; it shows
\* the Session stored, and shows idle when there is no state file.
C7_StatusReadsOnly ==
    [][out'.op = "status"
         => /\ file' = file
            /\ sent' = sent
            /\ out'.outcome = "ok"
            /\ out'.shown = Written
            /\ (~file.exists => out'.shown = None)]_vars

\* C7 happens: the command line has shown a Session with a stripped project
\* after a request failed.
C7_Witness ==
    /\ out.front = "cli" /\ out.op = "status"
    /\ out.shown # None
    /\ out.shown[1].project = "Acme"
    /\ sent # <<>>

\* C8: with a Session stored and a credential missing, stop fails with the
\* configuration error, sends nothing and leaves the state file as it was;
\* no request leaves without a token and a database id.
C8_MissingCredentialAborts ==
    [][/\ (/\ out'.op = "stop" /\ out'.front = "cli" /\ Written # None
           /\ out'.outcome # "ConfigError")
            => \A tokenFlag \in TokenFlags, databaseFlag \in DatabaseFlags, env \in Envs :
                  (\/ ~Truthy(tokenFlag) /\ ~Truthy(env.NOTION_TOKEN)
                   \/ ~Truthy(databaseFlag) /\ ~Truthy(env.NOTION_DATABASE_ID))
                     => ~CliStop(tokenFlag, databaseFlag, env)
       /\ (/\ out'.op = "stop" /\ out'.front = "gui" /\ Written # None
           /\ ~Truthy(guiEnv.NOTION_TOKEN) \/ ~Truthy(guiEnv.NOTION_DATABASE_ID))
             => /\ out'.outcome = "ConfigError"
                /\ sent' = sent
                /\ file' = file
                /\ pc' = pc
       /\ (out'.op = "stop" /\ out'.outcome = "ConfigError")
             => (Written # None /\ sent' = sent /\ file' = file)
       /\ sent' # sent
            => (Last(sent').token # "" /\ Last(sent').payload.database_id # "")]_vars

\* C8 happens: the window, launched without a database id, has refused to
\* stop the Session stored.
C8_Witness ==
    /\ out = Report("gui", "stop", "ConfigError", "dialog", None)
    /\ guiEnv.NOTION_DATABASE_ID = None
    /\ guiEnv.NOTION_TOKEN # None
    /\ Written # None

\* C9: a _read_state that reads the file while a _write_state of another
\* process is between its open and its write reads the whole text of a
\* Session, never an empty or cut file.
C9_ReadsSeeWholeFiles ==
    [][\A p \in Procs :
          (/\ pc[p] = "read_text" /\ pc'[p] # "read_text"
           /\ \E q \in Procs \ {p} : pc[q] = "write_data" /\ loc[q].fd)
            => Written # None]_vars

\* C10: a stop that failed with RemoteError or NetworkError leaves the front
\* end that ran it running, ready for a further operation.
C10_FailedStopLeavesFrontEndRunning ==
    (out.op = "stop" /\ out.outcome \in {"RemoteError", "NetworkError"})
       => \A p \in Procs : pc[p] = "ready"

\* C11: every request that is sent ends in one of three classes, by what the
\* network exchange ended in: success for a response with a status below 400,
\* RemoteError for a response with a status of 400 or more, NetworkError when
\* no response came (a transport failure, a timeout included).
C11_EveryExchangeClassified ==
    [][SentOne
         => LET x == Last(sent').exchange IN
            out'.outcome = IF x.kind # "response" THEN "NetworkError"
                           ELSE IF x.code >= 400 THEN "RemoteError"
                           ELSE "ok"]_vars

\* C12: a state file that is missing, empty, cut short, or JSON without the
\* three fields counts as no Session: status shows idle, stop fails with
\* NoActiveSession and touches nothing, and start, unless the window lacks
\* an input, succeeds and leaves the file holding exactly the new Session.
C12_MalformedFileIsIdle ==
    [][/\ (file \in InitFiles /\ out'.op = "status")
            => (out'.outcome = "ok" /\ out'.shown = None /\ file' = file)
       /\ (file \in InitFiles /\ out'.op = "stop")
            => (out'.outcome = "NoActiveSession" /\ file' = file /\ sent' = sent)
       /\ (file \in InitFiles /\ out'.op = "start")
            => \/ /\ out' = Report("gui", "start", "MissingInput", "dialog", None)
                  /\ file' = file
               \/ /\ out'.outcome = "ok"
                  /\ out'.shown # None
                  /\ file' = FileWith(ToJson(out'.shown[1]))
                  /\ Written' = out'.shown]_vars

\* C12 happens: with a state file cut short after its first field, the
\* command line has refused a stop for want of a Session.
C12_Witness ==
    /\ file = FileWith(<<Open, Tok("project", "Acme", NoTs)>>)
    /\ out = Report("cli", "stop", "NoActiveSession", "SystemExit", None)

\* C13: for every valid Session s, a read that follows write(s) returns s,
\* equal in project, task and start.
C13_WriteThenReadReturnsSession ==
    [][(out.op = "write" /\ out'.op = "read") => out'.shown = out.shown]_vars

\* C14: a read that follows clear returns absent; clear leaves no state file
\* whatever the file held, raises nothing, and changes nothing when there
\* was no file.
C14_ClearThenReadIsAbsent ==
    [][/\ (out.op = "clear" /\ out'.op = "read") => out'.shown = None
       /\ out'.op = "clear"
            => /\ out'.outcome = "ok"
               /\ ~file'.exists
               /\ ReadState(file') = None
               /\ (~file.exists => file' = file)]_vars

\* C14 happens: clear has run with no state file and has returned without
\* unlinking.
C14_Witness ==
    /\ out = Report("store", "clear", "ok", "return", None)
    /\ ~file.exists

\* C15: the request of a stop carries the start of the Session stored,
\* unchanged, and the time just read as its end; with start <= end the
\* duration is not negative and is (end - start) / 60 minutes rounded to the
\* nearest hundredth (150 hundredths, 1.5, for 90 seconds).
C15_DurationAndPayload ==
    [][out'.op = "stop"
         => LET payload == Last(sent').payload
                secs == payload.End.sec - payload.Start.sec
                diff == 60 * payload.Duration - 100 * secs
            IN /\ Written # None
               /\ payload.Start = Written[1].start
               /\ payload.Project = Written[1].project
               /\ payload.Task = Written[1].task
               /\ payload.End.iso
               /\ secs >= 0
               /\ payload.Duration >= 0
               /\ 2 * diff <= 60
               /\ 2 * diff >= -60
               /\ (secs = 90 => payload.Duration = 150)]_vars

\* C15 happens: a Session started at second 1 and stopped 90 seconds later
\* has been recorded with a duration of 1.5 minutes.
C15_Witness ==
    /\ out.op = "stop" /\ out.outcome = "ok"
    /\ sent # <<>>
    /\ Last(sent).payload.Start = Iso(1)
    /\ Last(sent).payload.End = Iso(91)
    /\ Last(sent).payload.Duration = 150

\* C16: a stop whose remote call fails leaves the Session stored as it was,
\* and a stop whose remote call succeeds sends that Session (project, task
\* and start as stored) and leaves no state file; and, stop being retried
\* until the remote service answers with a status below 400, a stored
\* Session is in the end recorded and deleted, as long as the clock of the
\* model has a reading left.
C16_RetryRecordsOriginalSession ==
    /\ [][(out'.op = "stop" /\ Written # None /\ SentOne)
            => IF RemoteFailed(Last(sent').exchange)
               THEN Written' = Written
               ELSE /\ Last(sent').payload.Project = Written[1].project
                    /\ Last(sent').payload.Task = Written[1].task
                    /\ Last(sent').payload.Start = Written[1].start
                    /\ ~file'.exists
                    /\ out'.outcome = "ok"]_vars
    /\ (Written # None) ~> (Written = None \/ now = Horizon)

\* C16 happens: a request that failed was followed by one that succeeded
\* for the same Session, and the state file is gone.
C16_Witness ==
    /\ ~file.exists
    /\ out.op = "stop" /\ out.outcome = "ok"
    /\ \E i \in 1..Len(sent) : \E j \in (i + 1)..Len(sent) :
          /\ RemoteFailed(sent[i].exchange)
          /\ ~RemoteFailed(sent[j].exchange)
          /\ sent[i].payload.Start = sent[j].payload.Start
          /\ sent[i].payload.Project = sent[j].payload.Project
          /\ sent[i].payload.Task = sent[j].payload.Task

\* C17: no step sends more than one request; start and status send none;
\* stop sends none with no Session stored or with a credential missing, and
\* exactly one with a Session stored and both credentials present.
C17_OneRequestPerStop ==
    [][/\ (sent' = sent \/ SentOne)
       /\ out'.op \in {"start", "status"} => sent' = sent
       /\ (out'.op = "stop" /\ (Written = None \/ out'.outcome = "ConfigError"))
            => sent' = sent
       /\ (out'.op = "stop" /\ out'.front = "gui" /\ Written # None
             /\ Truthy(guiEnv.NOTION_TOKEN) /\ Truthy(guiEnv.NOTION_DATABASE_ID))
            => SentOne
       /\ (out'.op = "stop" /\ out'.front = "cli" /\ Written # None /\ sent' = sent)
            => \A tokenFlag \in TokenFlags, databaseFlag \in DatabaseFlags, env \in Envs :
                  (/\ Truthy(tokenFlag) \/ Truthy(env.NOTION_TOKEN)
                   /\ Truthy(databaseFlag) \/ Truthy(env.NOTION_DATABASE_ID))
                     => ~CliStop(tokenFlag, databaseFlag, env)]_vars

\* C17 happens: a stop that found no response has ended, and the one request
\* it sent is the only one there is.
C17_Witness ==
    /\ out.op = "stop" /\ out.outcome = "NetworkError"
    /\ Len(sent) = 1
    /\ sent[1].exchange.kind = "URLError"

\* C18: nothing stops a start that has observed Idle: it empties the state
\* file whatever another start has written there meanwhile, and when its
\* write is done (over a text no longer than its own) the file holds its
\* Session alone and it reports success.
C18_LaterWriteWins ==
    [][\A p \in Procs :
          /\ (pc[p] = "write_open" /\ pc'[p] # "write_open")
               => (pc'[p] = "write_data" /\ file' = FileWith(<<>>))
          /\ (/\ pc[p] = "write_data" /\ pc'[p] # "write_data" /\ loc[p].fd
              /\ Size(file.text) <= Size(ToJson(loc[p].state[1])))
               => /\ Written' = loc[p].state
                  /\ out'.op = "start" /\ out'.outcome = "ok"
                  /\ out'.shown = loc[p].state]_vars

\* C18 happens: no stop has run and the clock has been read twice, so two
\* starts have observed Idle, both have written and both have reported
\* success; the file holds only the Session of the start that wrote last,
\* the one that read the clock first, and the other Session is gone.
C18_Witness ==
    /\ \A p \in Procs : pc[p] = "ready"
    /\ sent = <<>>
    /\ out.op = "start" /\ out.outcome = "ok"
    /\ Written # None
    /\ Written = out.shown
    /\ now > Written[1].start.sec

\* C19: the unlink at the end of a stop removes only the Session that this
\* stop read and recorded, and the store never loses a Session for which no
\* request carrying its project, task and start was answered with a status
\* below 400.
C19_OnlyRecordedSessionsAreDeleted ==
    [][/\ \A p \in Procs :
             (pc[p] = "clear_unlink" /\ pc'[p] # "clear_unlink" /\ Written # None)
               => Written = loc[p].state
       /\ (Written # None /\ Written' # Written)
            => \E i \in 1..Len(sent') :
                  /\ ~RemoteFailed(sent'[i].exchange)
                  /\ sent'[i].payload.Project = Written[1].project
                  /\ sent'[i].payload.Task = Written[1].task
                  /\ sent'[i].payload.Start = Written[1].start]_vars

\* The requests answered with a status below 400, by their place in q.
Answered(q) == {i \in 1..Len(q) : ~RemoteFailed(q[i].exchange)}

\* The Session a request carries.
Carried(r) == SessionState(r.payload.Project, r.payload.Task, r.payload.Start)

\* C20: run one after the other, the operations record each started Session
\* at most once.  A request is answered with a status below 400 only for
\* the Session stored, which no earlier such request carried and which is
\* deleted in the same step; a Session comes into the store only by a
\* successful start, and is new; no two such requests carry the same
\* Session; and they are no more than the successful starts (each reading of
\* the clock, 45 seconds after the last, is a successful start or a request).
C20_RecordedAtMostOnce ==
    [][/\ (SentOne /\ ~RemoteFailed(Last(sent').exchange))
            => /\ Written = Some(Carried(Last(sent')))
               /\ \A i \in Answered(sent) : Carried(sent[i]) # Written[1]
               /\ Written' = None
       /\ (Written' # None /\ Written' # Written)
            => /\ out'.op = "start" /\ out'.outcome = "ok"
               /\ \A i \in 1..Len(sent') : Carried(sent'[i]) # Written'[1]
       /\ \A i \in Answered(sent') : \A j \in Answered(sent') :
             (i # j) => (Carried(sent'[i]) # Carried(sent'[j]))
       /\ Cardinality(Answered(sent')) <= (now' \div 45) - Len(sent')]_vars

\* C20 happens: two Sessions have been started and each has been recorded
\* once.
C20_Witness ==
    /\ Cardinality(Answered(sent)) = 2
    /\ Written = None
    /\ \E i \in Answered(sent) : \E j \in Answered(sent) :
          Carried(sent[i]).start # Carried(sent[j]).start

====
